---- MODULE Spec2Model ----
(***************************************************************************)
(* TopicGraph (src/topic_graph.py): a wrapper that keeps a topic catalogue *)
(* in a property graph.  Trunk, Branch and Reference nodes, BELONGS_TO and *)
(* IS_ABOUT relationships.  Every public method opens a session, runs one  *)
(* write transaction holding one Cypher statement, and prints the rows.    *)
(*                                                                         *)
(* The store is modelled as the graph itself: `nodes` maps a node id to    *)
(* its label and properties, `edges` is the set of relationships.  Each    *)
(* Cypher statement is translated clause by clause (MATCH, WHERE NOT       *)
(* EXISTS, MERGE, DETACH DELETE, RETURN).                                  *)
(***************************************************************************)
EXTENDS Integers, FiniteSets, Sequences, Bags, TLC

(* ---------------------------- bounds and inputs ------------------------ *)

MaxCalls == 3
NumWorkers == 2

Names  == {"a", "b"}
Titles == {"t"}
Notes  == {"", "n"}
Urls   == {"u", "v"}
Labels == {"Trunk", "Branch"}
ArgLabels == Labels \cup {"Leaf"}
Null == "null"

Workers == 1..NumWorkers

VARIABLES nodes, edges, last, calls, workers

vars == <<nodes, edges, last, calls, workers>>

(* ------------------------------ the graph ------------------------------ *)

TrunkNode(name) ==
    [label |-> "Trunk", name |-> name, title |-> Null, note |-> Null, url |-> Null]

BranchNode(name, note) ==
    [label |-> "Branch", name |-> name, title |-> Null, note |-> note, url |-> Null]

ReferenceNode(title, url) ==
    [label |-> "Reference", name |-> Null, title |-> title, note |-> Null, url |-> url]

Edge(from, type, to) == [from |-> from, type |-> type, to |-> to]

Min(S) == CHOOSE x \in S : \A y \in S : x <= y

\* The id the store gives the next node it creates: the lowest one not in use.
NewId(ns) == Min((1..(Cardinality(DOMAIN ns) + 1)) \ DOMAIN ns)

\* MATCH (x:<label> { name: $name })
MatchNamed(ns, label, name) ==
    {i \in DOMAIN ns : ns[i].label = label /\ ns[i].name = name}

\* MATCH (ref:Reference { title: $title })
MatchTitled(ns, title) ==
    {i \in DOMAIN ns : ns[i].label = "Reference" /\ ns[i].title = title}

\* (branch:Branch { name: $name })-[:BELONGS_TO]->(parent)
BranchesOn(ns, es, name, parent) ==
    {b \in MatchNamed(ns, "Branch", name) : Edge(b, "BELONGS_TO", parent) \in es}

\* (ref:Reference { title: $title })-[:IS_ABOUT]->(about)
ReferencesOn(ns, es, title, about) ==
    {r \in MatchTitled(ns, title) : Edge(r, "IS_ABOUT", about) \in es}

\* Mutant of DetachDelete: only the relationships that leave the deleted nodes
\* go with them.
DeleteWithOutgoing(ns, es, del) ==
    [nodes |-> [i \in (DOMAIN ns) \ del |-> ns[i]],
     edges |-> {e \in es : e.from \notin del}]

\* DETACH DELETE: the nodes and every relationship touching them
DetachDelete(ns, es, del) ==
    [nodes |-> [i \in (DOMAIN ns) \ del |-> ns[i]],
     edges |-> {e \in es : e.from \notin del /\ e.to \notin del}]

\* The rows of a result, as a bag: the order of rows is the store's choice.
\* `row` maps each match of the statement to the row returned for it.
Rows(row) ==
    [r \in {row[m] : m \in DOMAIN row} |-> Cardinality({m \in DOMAIN row : row[m] = r})]

NoRows == <<>>

Outcome(ns, es, result, err) ==
    [nodes |-> ns, edges |-> es, result |-> result, err |-> err]

\* Mutant of Raise: a label that is not known gives an empty result, no error.
ReturnNoRows(ns, es) == Outcome(ns, es, NoRows, "none")

Raise(ns, es) == Outcome(ns, es, NoRows, "ValueError")

(* ------------------------------- trunks -------------------------------- *)

\* result.single()['trunk']['name']: the name in the (first) row, kept as a
\* one-row result so that every operation's result is a bag of rows.
Single(name) == Rows([n \in {name} |-> [name |-> n]])

\* MERGE (trunk:Trunk { name: $name }) RETURN trunk
_create_trunk(ns, es, name) ==
    IF MatchNamed(ns, "Trunk", name) # {}
    THEN Outcome(ns, es, Single(name), "none")
    ELSE Outcome(ns @@ (NewId(ns) :> TrunkNode(name)), es, Single(name), "none")

\* MATCH (trunk:Trunk) RETURN trunk
_get_trunks(ns, es) ==
    Outcome(ns, es,
            Rows([i \in {i \in DOMAIN ns : ns[i].label = "Trunk"} |-> [name |-> ns[i].name]]),
            "none")

\* Mutant of _delete_trunk: the Branches that belong to the trunk are deleted
\* with it.
DeleteTrunkWithBranches(ns, es, name) ==
    LET trunks == MatchNamed(ns, "Trunk", name)
        d == DetachDelete(ns, es,
                 trunks \cup {b \in DOMAIN ns : \E t \in trunks :
                                 Edge(b, "BELONGS_TO", t) \in es})
    IN  Outcome(d.nodes, d.edges, NoRows, "none")

\* MATCH (trunk:Trunk { name: $name }) DETACH DELETE trunk
_delete_trunk(ns, es, name) ==
    LET d == DetachDelete(ns, es, MatchNamed(ns, "Trunk", name))
    IN  Outcome(d.nodes, d.edges, NoRows, "none")

(* ------------------------------ branches ------------------------------- *)

\* Mutant of GuardedParents: the WHERE NOT EXISTS guard left out.
UnguardedParents(ns, es, name, parent_label, parent_name) ==
    MatchNamed(ns, parent_label, parent_name)

\* MATCH (parent:<label> { name: $parent_name })
\* WHERE NOT EXISTS { (branch:Branch { name: $name })-[:BELONGS_TO]->(parent) }
GuardedParents(ns, es, name, parent_label, parent_name) ==
    {p \in MatchNamed(ns, parent_label, parent_name) : BranchesOn(ns, es, name, p) = {}}

\* Mutant of MergeBranchMatch: the MERGE matches a Branch with these
\* properties wherever it is, so an existing one is reused.
MergeBranchMatchAnywhere(ns, es, name, note, parent) ==
    {b \in MatchNamed(ns, "Branch", name) : ns[b].note = note}

\* MERGE (branch:Branch { name: $name, note: $note })-[:BELONGS_TO]->(parent),
\* the match half: the branches with these properties already on the parent.
MergeBranchMatch(ns, es, name, note, parent) ==
    {b \in BranchesOn(ns, es, name, parent) : ns[b].note = note}

\* The MERGE above run for each row `parent` in turn; `n` counts the rows out.
RECURSIVE MergeBranches(_, _, _, _, _, _)
MergeBranches(ns, es, n, parents, name, note) ==
    IF parents = {} THEN [nodes |-> ns, edges |-> es, n |-> n]
    ELSE LET p  == Min(parents)
             m  == MergeBranchMatch(ns, es, name, note, p)
             id == NewId(ns)
         IN  IF m # {}
             THEN MergeBranches(ns, es, n + Cardinality(m), parents \ {p}, name, note)
             ELSE MergeBranches(ns @@ (id :> BranchNode(name, note)),
                                es \cup {Edge(id, "BELONGS_TO", p)},
                                n + 1, parents \ {p}, name, note)

\* n copies of one row
Copies(n, row) == IF n = 0 THEN NoRows ELSE [r \in {row} |-> n]

_create_branch(ns, es, name, parent_label, parent_name, note) ==
    IF parent_label \notin Labels THEN Raise(ns, es)
    ELSE LET m == MergeBranches(ns, es, 0,
                      GuardedParents(ns, es, name, parent_label, parent_name),
                      name, note)
         IN  Outcome(m.nodes, m.edges,
                     Copies(m.n, [branch |-> name, parent |-> parent_name]), "none")

\* Mutant of _delete_branch: the branch is matched by its name alone, whatever
\* it belongs to.
DeleteBranchByName(ns, es, name, parent_label, parent_name) ==
    IF parent_label \notin Labels THEN Raise(ns, es)
    ELSE LET d == DetachDelete(ns, es, MatchNamed(ns, "Branch", name))
         IN  Outcome(d.nodes, d.edges, NoRows, "none")

\* MATCH (branch:Branch { name: $name })-[:BELONGS_TO]->(parent:<label> { name: $parent_name })
\* DETACH DELETE branch
_delete_branch(ns, es, name, parent_label, parent_name) ==
    IF parent_label \notin Labels THEN Raise(ns, es)
    ELSE LET del == {b \in MatchNamed(ns, "Branch", name) :
                        \E p \in MatchNamed(ns, parent_label, parent_name) :
                            Edge(b, "BELONGS_TO", p) \in es}
             d   == DetachDelete(ns, es, del)
         IN  Outcome(d.nodes, d.edges, NoRows, "none")

\* MERGE (from)-[:BELONGS_TO]->(to), both ends bound: the relationship is
\* created only where there is none.
MergeBelongsTo(es, pairs) ==
    es \cup {Edge(pr[1], "BELONGS_TO", pr[2]) : pr \in pairs}

\* Mutant of _connect_branch: `from` is matched by name without the Branch
\* label.
ConnectAnyNode(ns, es, from_branch, parent_label, to_parent) ==
    IF parent_label \notin Labels THEN Raise(ns, es)
    ELSE LET pairs == {i \in DOMAIN ns : ns[i].name = from_branch}
                        \X MatchNamed(ns, parent_label, to_parent)
         IN  Outcome(ns, MergeBelongsTo(es, pairs),
                     Copies(Cardinality(pairs), [from |-> from_branch, to |-> to_parent]),
                     "none")

\* Mutant of _connect_branch: the parent is part of the MERGE pattern instead
\* of being matched first, so a parent that is missing gets created.
ConnectBranchMergingParent(ns, es, from_branch, parent_label, to_parent) ==
    IF parent_label \notin Labels THEN Raise(ns, es)
    ELSE LET froms  == MatchNamed(ns, "Branch", from_branch)
             id     == NewId(ns)
             ns2    == IF MatchNamed(ns, parent_label, to_parent) = {} /\ froms # {}
                       THEN ns @@ (id :> [label |-> parent_label, name |-> to_parent,
                                          title |-> Null, note |-> Null, url |-> Null])
                       ELSE ns
             pairs  == froms \X MatchNamed(ns2, parent_label, to_parent)
         IN  Outcome(ns2, MergeBelongsTo(es, pairs),
                     Copies(Cardinality(pairs), [from |-> from_branch, to |-> to_parent]),
                     "none")

\* MATCH (from:Branch { name: $from_branch }) MATCH (to:<label> { name: $to_parent })
\* MERGE (from)-[:BELONGS_TO]->(to) RETURN from, to
_connect_branch(ns, es, from_branch, parent_label, to_parent) ==
    IF parent_label \notin Labels THEN Raise(ns, es)
    ELSE LET pairs == MatchNamed(ns, "Branch", from_branch)
                        \X MatchNamed(ns, parent_label, to_parent)
         IN  Outcome(ns, MergeBelongsTo(es, pairs),
                     Copies(Cardinality(pairs), [from |-> from_branch, to |-> to_parent]),
                     "none")

\* Mutant of _get_branches: a variable-length pattern, -[:BELONGS_TO*1..2]->,
\* that returns the grandchildren with the children.
GetBranchesTwoHops(ns, es, label, name) ==
    IF label \notin Labels THEN Raise(ns, es)
    ELSE LET parents == MatchNamed(ns, label, name)
             one     == {e \in es : e.type = "BELONGS_TO" /\ e.to \in parents}
             two     == {pr \in es \X one : pr[1].type = "BELONGS_TO" /\ pr[1].to = pr[2].from}
         IN  Outcome(ns, es,
                     Rows([e \in one |-> [name |-> ns[e.from].name]])
                       (+) Rows([pr \in two |-> [name |-> ns[pr[1].from].name]]),
                     "none")

\* MATCH (branch:Branch)-[:BELONGS_TO]->(:<label> { name: $name }) RETURN branch
_get_branches(ns, es, label, name) ==
    IF label \notin Labels THEN Raise(ns, es)
    ELSE Outcome(ns, es,
                 Rows([e \in {e \in es : /\ e.type = "BELONGS_TO"
                                         /\ ns[e.from].label = "Branch"
                                         /\ e.to \in MatchNamed(ns, label, name)}
                          |-> [name |-> ns[e.from].name]]),
                 "none")

(* ----------------------------- references ------------------------------ *)

\* Mutant of GuardedSubjects: the WHERE NOT EXISTS guard left out.
UnguardedSubjects(ns, es, title, about_label, about) ==
    MatchNamed(ns, about_label, about)

\* Mutant of GuardedSubjects: the guard asks for a title no Reference has yet,
\* whatever its subject.
FreshTitleSubjects(ns, es, title, about_label, about) ==
    {s \in MatchNamed(ns, about_label, about) : MatchTitled(ns, title) = {}}

\* MATCH (about:<label> { name: $about })
\* WHERE NOT EXISTS { (ref:Reference { title: $title })-[:IS_ABOUT]->(about) }
GuardedSubjects(ns, es, title, about_label, about) ==
    {s \in MatchNamed(ns, about_label, about) : ReferencesOn(ns, es, title, s) = {}}

\* MERGE (ref:Reference { title: $title, url: $url })-[:IS_ABOUT]->(about),
\* the match half.
MergeReferenceMatch(ns, es, title, url, about) ==
    {r \in ReferencesOn(ns, es, title, about) : ns[r].url = url}

RECURSIVE MergeReferences(_, _, _, _, _, _)
MergeReferences(ns, es, n, subjects, title, url) ==
    IF subjects = {} THEN [nodes |-> ns, edges |-> es, n |-> n]
    ELSE LET s  == Min(subjects)
             m  == MergeReferenceMatch(ns, es, title, url, s)
             id == NewId(ns)
         IN  IF m # {}
             THEN MergeReferences(ns, es, n + Cardinality(m), subjects \ {s}, title, url)
             ELSE MergeReferences(ns @@ (id :> ReferenceNode(title, url)),
                                  es \cup {Edge(id, "IS_ABOUT", s)},
                                  n + 1, subjects \ {s}, title, url)

_create_reference(ns, es, title, url, about_label, about) ==
    IF about_label \notin Labels THEN Raise(ns, es)
    ELSE LET m == MergeReferences(ns, es, 0,
                      GuardedSubjects(ns, es, title, about_label, about),
                      title, url)
         IN  Outcome(m.nodes, m.edges,
                     Copies(m.n, [title |-> title, url |-> url, about |-> about]), "none")

\* MATCH (ref:Reference { title: $title })-[:IS_ABOUT]->(:<label> { name: $current_about })
\* one row for each path: <<ref, subject>>
ReferencePaths(ns, es, title, current_about_label, current_about) ==
    {pr \in MatchTitled(ns, title) \X MatchNamed(ns, current_about_label, current_about) :
        Edge(pr[1], "IS_ABOUT", pr[2]) \in es}

\* The node MERGE creates for the unbound (to:<label> { name: $to }): it has the
\* label and the name of the pattern and no other property.
PatternNode(to_label, to) ==
    [label |-> to_label, name |-> to, title |-> Null, note |-> Null, url |-> Null]

\* MERGE (ref)-[:IS_ABOUT]->(to:<label> { name: $to }), the match half: `ref` is
\* bound, `to` is not.
MergeAboutMatch(ns, es, ref, to_label, to) ==
    {x \in MatchNamed(ns, to_label, to) : Edge(ref, "IS_ABOUT", x) \in es}

LexMin(paths) ==
    CHOOSE p \in paths : \A q \in paths : p[1] < q[1] \/ (p[1] = q[1] /\ p[2] <= q[2])

\* The MERGE above run for each row in turn: where the whole pattern has no
\* match, the unbound part of it (the relationship and the node `to`) is created.
RECURSIVE MergeAbout(_, _, _, _, _, _)
MergeAbout(ns, es, n, paths, to_label, to) ==
    IF paths = {} THEN [nodes |-> ns, edges |-> es, n |-> n]
    ELSE LET p  == LexMin(paths)
             m  == MergeAboutMatch(ns, es, p[1], to_label, to)
             id == NewId(ns)
         IN  IF m # {}
             THEN MergeAbout(ns, es, n + Cardinality(m), paths \ {p}, to_label, to)
             ELSE MergeAbout(ns @@ (id :> PatternNode(to_label, to)),
                             es \cup {Edge(p[1], "IS_ABOUT", id)},
                             n + 1, paths \ {p}, to_label, to)

_cross_reference(ns, es, title, current_about_label, current_about, to_label, to) ==
    IF current_about_label \notin Labels THEN Raise(ns, es)
    ELSE IF to_label \notin Labels THEN Raise(ns, es)
    ELSE LET m == MergeAbout(ns, es, 0,
                      ReferencePaths(ns, es, title, current_about_label, current_about),
                      to_label, to)
         IN  Outcome(m.nodes, m.edges, Copies(m.n, [title |-> title, to |-> to]), "none")

\* MATCH (ref:Reference)-[:IS_ABOUT]->(:<label> { name: $about }) RETURN ref
_get_references(ns, es, about_label, about) ==
    IF about_label \notin Labels THEN Raise(ns, es)
    ELSE Outcome(ns, es,
                 Rows([e \in {e \in es : /\ e.type = "IS_ABOUT"
                                         /\ ns[e.from].label = "Reference"
                                         /\ e.to \in MatchNamed(ns, about_label, about)}
                          |-> [title |-> ns[e.from].title, url |-> ns[e.from].url]]),
                 "none")

\* MATCH (ref:Reference { title: $title })-[:IS_ABOUT]->(:<label> { name: $about })
\* DETACH DELETE ref
_delete_reference(ns, es, title, about_label, about) ==
    IF about_label \notin Labels THEN Raise(ns, es)
    ELSE LET del == {pr[1] : pr \in ReferencePaths(ns, es, title, about_label, about)}
             d   == DetachDelete(ns, es, del)
         IN  Outcome(d.nodes, d.edges, NoRows, "none")

(* ------------------- the public methods, one transaction each ----------- *)

\* with self.driver.session() as session: session.write_transaction(fn, ...)
\* The transaction function runs inside an open transaction; what it returns
\* is the call's result, what it raises rolls the transaction back and leaves
\* the method.  `last` records the call that has just returned, `calls` counts
\* the calls made.
write_transaction(op, args, out) ==
    /\ calls' = calls + 1
    /\ nodes' = out.nodes
    /\ edges' = out.edges
    /\ last' = [op |-> op, args |-> args, result |-> out.result, err |-> out.err,
                tx |-> TRUE]
    /\ UNCHANGED workers

create_trunk ==
    \E name \in Names :
        /\ calls < MaxCalls
        /\ write_transaction("create_trunk", <<name>>, _create_trunk(nodes, edges, name))

get_trunks ==
    /\ calls < MaxCalls
    /\ write_transaction("get_trunks", <<>>, _get_trunks(nodes, edges))

delete_trunk ==
    \E name \in Names :
        /\ calls < MaxCalls
        /\ write_transaction("delete_trunk", <<name>>, _delete_trunk(nodes, edges, name))

create_branch ==
    \E name \in Names, parent_label \in ArgLabels, parent_name \in Names, note \in Notes :
        /\ calls < MaxCalls
        /\ write_transaction("create_branch", <<name, parent_label, parent_name, note>>,
            _create_branch(nodes, edges, name, parent_label, parent_name, note))

delete_branch ==
    \E name \in Names, parent_label \in ArgLabels, parent_name \in Names :
        /\ calls < MaxCalls
        /\ write_transaction("delete_branch", <<name, parent_label, parent_name>>,
            _delete_branch(nodes, edges, name, parent_label, parent_name))

connect_branch ==
    \E from_branch \in Names, parent_label \in ArgLabels, to_parent \in Names :
        /\ calls < MaxCalls
        /\ write_transaction("connect_branch", <<from_branch, parent_label, to_parent>>,
            _connect_branch(nodes, edges, from_branch, parent_label, to_parent))

get_branches ==
    \E parent_label \in ArgLabels, parent_name \in Names :
        /\ calls < MaxCalls
        /\ write_transaction("get_branches", <<parent_label, parent_name>>,
            _get_branches(nodes, edges, parent_label, parent_name))

create_reference ==
    \E title \in Titles, url \in Urls, about_label \in ArgLabels, about \in Names :
        /\ calls < MaxCalls
        /\ write_transaction("create_reference", <<title, url, about_label, about>>,
            _create_reference(nodes, edges, title, url, about_label, about))

cross_reference ==
    \E title \in Titles, current_about_label \in ArgLabels, current_about \in Names,
       to_label \in ArgLabels, to \in Names :
        /\ calls < MaxCalls
        /\ write_transaction("cross_reference",
            <<title, current_about_label, current_about, to_label, to>>,
            _cross_reference(nodes, edges, title, current_about_label, current_about,
                             to_label, to))

get_references ==
    \E about_label \in ArgLabels, about \in Names :
        /\ calls < MaxCalls
        /\ write_transaction("get_references", <<about_label, about>>,
            _get_references(nodes, edges, about_label, about))

delete_reference ==
    \E title \in Titles, about_label \in ArgLabels, about \in Names :
        /\ calls < MaxCalls
        /\ write_transaction("delete_reference", <<title, about_label, about>>,
            _delete_reference(nodes, edges, title, about_label, about))

NoCall == [op |-> "none", args |-> <<>>, result |-> NoRows, err |-> "none", tx |-> FALSE]

Idle ==
    [w \in Workers |->
        [pc |-> "idle", args |-> <<>>, parents |-> {}, result |-> NoRows, err |-> "none"]]

Db(out) == [nodes |-> out.nodes, edges |-> out.edges]

\* The database the driver connects to is what earlier sessions left in it:
\* an empty one, the one left by create_trunk("a"); create_trunk("b"), or the
\* one left by these and create_reference("t", "u", "Trunk", "a").
EmptyDb == [nodes |-> <<>>, edges |-> {}]

TwoTrunksDb ==
    LET first == _create_trunk(EmptyDb.nodes, EmptyDb.edges, "a")
    IN  Db(_create_trunk(first.nodes, first.edges, "b"))

ReferencedDb ==
    Db(_create_reference(TwoTrunksDb.nodes, TwoTrunksDb.edges, "t", "u", "Trunk", "a"))

Databases == {EmptyDb, TwoTrunksDb, ReferencedDb}

\* __init__: a driver on the database, no call made yet
Init ==
    /\ \E db \in Databases : nodes = db.nodes /\ edges = db.edges
    /\ last = NoCall
    /\ calls = 0
    /\ workers = Idle

Next ==
    \/ create_trunk
    \/ get_trunks
    \/ delete_trunk
    \/ create_branch
    \/ delete_branch
    \/ connect_branch
    \/ get_branches
    \/ create_reference
    \/ cross_reference
    \/ get_references
    \/ delete_reference

Spec == Init /\ [][Next]_vars

(* ---------------- concurrent callers of create_branch ------------------ *)

\* Several clients call create_branch at once, each in its own session and
\* transaction.  The statement of a transaction reads what is committed when
\* it runs (MATCH, the WHERE NOT EXISTS guard, the match half of MERGE) and
\* what it creates becomes visible to the others when it commits: the store
\* does not make MERGE's check-then-create atomic across transactions
\* (src/topic_graph.py, lines 11-13).

\* CREATE half of MERGE (branch:Branch { name: $name, note: $note })-[:BELONGS_TO]->(parent)
RECURSIVE CreateBranches(_, _, _, _, _)
CreateBranches(ns, es, parents, name, note) ==
    IF parents = {} THEN [nodes |-> ns, edges |-> es]
    ELSE LET p  == Min(parents)
             id == NewId(ns)
         IN  CreateBranches(ns @@ (id :> BranchNode(name, note)),
                            es \cup {Edge(id, "BELONGS_TO", p)},
                            parents \ {p}, name, note)

\* create_branch entered: session.write_transaction(self._create_branch, ...)
begin_create_branch(w) ==
    /\ workers[w].pc = "idle"
    /\ \E name \in Names, parent_label \in ArgLabels, parent_name \in Names, note \in Notes :
          workers' = [workers EXCEPT ![w].pc = "run",
                                     ![w].args = <<name, parent_label, parent_name, note>>]
    /\ UNCHANGED <<nodes, edges, last, calls>>

\* _create_branch: the label check, then tx.run(query, ...) on the committed graph
run_create_branch(w) ==
    /\ workers[w].pc = "run"
    /\ LET a == workers[w].args
           guarded == GuardedParents(nodes, edges, a[1], a[2], a[3])
           create  == {p \in guarded : MergeBranchMatch(nodes, edges, a[1], a[4], p) = {}}
           matched == {<<b, p>> \in (DOMAIN nodes) \X guarded :
                          b \in MergeBranchMatch(nodes, edges, a[1], a[4], p)}
       IN  IF a[2] \notin Labels
           THEN workers' = [workers EXCEPT ![w].pc = "done", ![w].err = "ValueError"]
           ELSE workers' = [workers EXCEPT
                               ![w].pc = "commit",
                               ![w].parents = create,
                               ![w].result = Copies(Cardinality(create) + Cardinality(matched),
                                                    [branch |-> a[1], parent |-> a[3]])]
    /\ UNCHANGED <<nodes, edges, last, calls>>

\* write_transaction returns: the transaction commits what the statement created
commit_create_branch(w) ==
    /\ workers[w].pc = "commit"
    /\ LET a == workers[w].args
           c == CreateBranches(nodes, edges, workers[w].parents, a[1], a[4])
       IN  /\ nodes' = c.nodes
           /\ edges' = c.edges
    /\ workers' = [workers EXCEPT ![w].pc = "done"]
    /\ UNCHANGED <<last, calls>>

NextConcurrent ==
    \E w \in Workers :
        \/ begin_create_branch(w)
        \/ run_create_branch(w)
        \/ commit_create_branch(w)

SpecConcurrent == Init /\ [][NextConcurrent]_vars

(* ------------------------------ properties ----------------------------- *)

Arg(k) == last.args[k]

\* The call that has just returned ran its statement (its labels were valid).
Ran(op) == last.op = op /\ last.err = "none"

StoreUnchanged == nodes' = nodes /\ edges' = edges

\* BELONGS_TO relationships from a Branch named `name` to the node `parent`
BelongsTo(name, parent) ==
    {e \in edges : /\ e.type = "BELONGS_TO" /\ e.to = parent
                   /\ nodes[e.from].label = "Branch" /\ nodes[e.from].name = name}

\* IS_ABOUT relationships from a Reference titled `title` to the node `about`
IsAbout(title, about) ==
    {e \in edges : /\ e.type = "IS_ABOUT" /\ e.to = about
                   /\ nodes[e.from].label = "Reference" /\ nodes[e.from].title = title}

\* C1: after any sequence of calls, each one transaction, no parent node has two
\* BELONGS_TO relationships coming from Branch nodes of the same name.
C1_NoDuplicateBelongsTo ==
    \A parent \in DOMAIN nodes, name \in Names :
        Cardinality(BelongsTo(name, parent)) <= 1

\* C2: once N concurrent create_branch calls with the same branch name on the
\* same existing parent have all finished, exactly one BELONGS_TO relationship
\* goes from a Branch of that name to that parent.
C2_ConcurrentCreateBranchOneEdge ==
    (\A w \in Workers : workers[w].pc = "done") =>
        \A name \in Names, parent_label \in Labels, parent_name \in Names :
            (\A w \in Workers : /\ workers[w].args[1] = name
                                /\ workers[w].args[2] = parent_label
                                /\ workers[w].args[3] = parent_name) =>
                \A parent \in MatchNamed(nodes, parent_label, parent_name) :
                    Cardinality(BelongsTo(name, parent)) = 1

\* C3: after any sequence of calls, no two Trunk nodes have the same name.
C3_UniqueTrunkNames ==
    \A i, j \in DOMAIN nodes :
        (nodes[i].label = "Trunk" /\ nodes[j].label = "Trunk"
            /\ nodes[i].name = nodes[j].name) => i = j

\* C4: cross_reference(title, current_about_label, current_about, to_label, to)
\* with valid labels, where no node with label to_label and name to exists or
\* the reference does not resolve, returns no rows, raises nothing and creates
\* no node and no relationship.
C4_CrossReferenceOnlyAttaches ==
    [][(/\ last'.op = "cross_reference"
        /\ last'.args[2] \in Labels /\ last'.args[4] \in Labels
        /\ \/ MatchNamed(nodes, last'.args[4], last'.args[5]) = {}
           \/ ReferencePaths(nodes, edges, last'.args[1], last'.args[2], last'.args[3]) = {})
       => (last'.result = NoRows /\ last'.err = "none" /\ StoreUnchanged)]_vars

\* C5: for a Branch attached to two different parents P1 and P2,
\* delete_branch(name, label of P1, name of P1) leaves the Branch's BELONGS_TO
\* relationship to P2 in place.
C5_DeleteBranchScopedToParent ==
    [][(last'.op = "delete_branch" /\ last'.args[2] \in Labels)
       => LET P1 == MatchNamed(nodes, last'.args[2], last'.args[3])
          IN  \A b \in MatchNamed(nodes, "Branch", last'.args[1]), p1 \in P1,
                 p2 \in (DOMAIN nodes) \ P1 :
                  (Edge(b, "BELONGS_TO", p1) \in edges /\ Edge(b, "BELONGS_TO", p2) \in edges)
                      => Edge(b, "BELONGS_TO", p2) \in edges']_vars

\* C6: after any sequence of calls, each one transaction, no subject node has
\* two IS_ABOUT relationships coming from Reference nodes of the same title.
C6_NoDuplicateIsAbout ==
    \A about \in DOMAIN nodes, title \in Titles :
        Cardinality(IsAbout(title, about)) <= 1

\* A create_reference for a title its subject already carries has just been
\* refused, and the subject still has its one reference of that title.
C6_Witness ==
    /\ Ran("create_reference")
    /\ last.result = NoRows
    /\ \E about \in MatchNamed(nodes, Arg(3), Arg(4)) :
          Cardinality(IsAbout(Arg(1), about)) = 1

\* C7: create_trunk(name) called twice in a row leaves exactly one Trunk node
\* with that name, the second call leaves the store unchanged and returns what
\* the first call returned.
C7_CreateTrunkIdempotent ==
    [][(last.op = "create_trunk" /\ last'.op = "create_trunk" /\ last'.args = last.args)
       => /\ StoreUnchanged
          /\ last'.result = last.result
          /\ Cardinality(MatchNamed(nodes', "Trunk", last'.args[1])) = 1]_vars

\* C8: create_branch(n, label, parent, any note) where every node matched by
\* (label, parent) already has a child Branch named n, and create_reference(t,
\* any url, label, subject) where every node matched by (label, subject) already
\* has a Reference titled t, return no rows, raise nothing and leave the store
\* unchanged.
C8_GuardedCreationRepeatedIsNoOp ==
    [][/\ (/\ last'.op = "create_branch"
           /\ last'.args[2] \in Labels
           /\ MatchNamed(nodes, last'.args[2], last'.args[3]) # {}
           /\ \A p \in MatchNamed(nodes, last'.args[2], last'.args[3]) :
                 BranchesOn(nodes, edges, last'.args[1], p) # {})
          => (last'.result = NoRows /\ last'.err = "none" /\ StoreUnchanged)
       /\ (/\ last'.op = "create_reference"
           /\ last'.args[3] \in Labels
           /\ MatchNamed(nodes, last'.args[3], last'.args[4]) # {}
           /\ \A s \in MatchNamed(nodes, last'.args[3], last'.args[4]) :
                 ReferencesOn(nodes, edges, last'.args[1], s) # {})
          => (last'.result = NoRows /\ last'.err = "none" /\ StoreUnchanged)]_vars

\* create_branch has just been refused on a parent that has a child Branch of
\* that name whose note differs from the note of the call.
C8_Witness ==
    /\ Ran("create_branch")
    /\ last.result = NoRows
    /\ \E p \in MatchNamed(nodes, Arg(2), Arg(3)) :
          \E b \in BranchesOn(nodes, edges, Arg(1), p) : nodes[b].note # Arg(4)

\* create_reference has just been refused on a subject that has a Reference of
\* that title whose url differs from the url of the call.
C8_WitnessReference ==
    /\ Ran("create_reference")
    /\ last.result = NoRows
    /\ \E s \in MatchNamed(nodes, Arg(3), Arg(4)) :
          \E r \in ReferencesOn(nodes, edges, Arg(1), s) : nodes[r].url # Arg(2)

\* create_reference(t, _, l2, s2) is called for an existing subject while the
\* node s1, of another label or name, carries a Reference titled t (created by
\* an earlier create_reference).
ReattachStep(s1) ==
    /\ last'.op = "create_reference"
    /\ last'.args[3] \in Labels
    /\ <<nodes[s1].label, nodes[s1].name>> # <<last'.args[3], last'.args[4]>>
    /\ ReferencesOn(nodes, edges, last'.args[1], s1) # {}
    /\ MatchNamed(nodes, last'.args[3], last'.args[4]) # {}

\* The call before this one was a create_reference with the same title that
\* returned rows for the subject s1.
CreatedJustBefore(s1) ==
    /\ last.op = "create_reference"
    /\ last.result # NoRows
    /\ last.args[1] = last'.args[1]
    /\ <<last.args[3], last.args[4]>> = <<nodes[s1].label, nodes[s1].name>>

\* The call returns rows; afterwards s1 and the subject of the call both carry
\* a Reference titled t, and what was in the store before is still there.
ReattachDone(s1) ==
    /\ last'.result # NoRows
    /\ last'.err = "none"
    /\ edges \subseteq edges'
    /\ \A i \in DOMAIN nodes : i \in DOMAIN nodes' /\ nodes'[i] = nodes[i]
    /\ \A s \in {s1} \cup MatchNamed(nodes, last'.args[3], last'.args[4]) :
          ReferencesOn(nodes', edges', last'.args[1], s) # {}

\* C9 as stated: with a Reference titled t created about S1, create_reference
\* with the same title about a different existing subject S2 returns rows and
\* leaves IS_ABOUT relationships from references titled t to S1 and to S2, the
\* first one untouched.
C9_ReattachAlwaysSucceeds ==
    [][\A s1 \in DOMAIN nodes :
          (ReattachStep(s1) /\ CreatedJustBefore(s1)) => ReattachDone(s1)]_vars

\* C9 as amended: the same, for a subject S2 that has no Reference titled t
\* yet; it holds whenever S1 carries a Reference titled t, in particular right
\* after the create_reference about S1.
C9_ReattachToFreshSubjectSucceeds ==
    [][\A s1 \in DOMAIN nodes :
          (/\ ReattachStep(s1)
           /\ \A s \in MatchNamed(nodes, last'.args[3], last'.args[4]) :
                 ReferencesOn(nodes, edges, last'.args[1], s) = {})
          => ReattachDone(s1)]_vars

\* create_reference has just returned rows for one subject while a node with
\* another label or name carries a Reference of the same title.
C9_Witness ==
    /\ Ran("create_reference")
    /\ last.result # NoRows
    /\ \E s2 \in MatchNamed(nodes, Arg(3), Arg(4)), s1 \in DOMAIN nodes :
          /\ <<nodes[s1].label, nodes[s1].name>> # <<Arg(3), Arg(4)>>
          /\ ReferencesOn(nodes, edges, Arg(1), s1) # {}
          /\ ReferencesOn(nodes, edges, Arg(1), s2) # {}
          /\ ReferencesOn(nodes, edges, Arg(1), s1) \cap ReferencesOn(nodes, edges, Arg(1), s2) = {}

\* C10: connect_branch(from_branch, parent_label, to_parent) with a valid label,
\* where no Branch named from_branch or no node with that label and name
\* exists, returns no rows, raises nothing and leaves the store unchanged.
C10_ConnectBranchMissingEndpoint ==
    [][(/\ last'.op = "connect_branch"
        /\ last'.args[2] \in Labels
        /\ \/ MatchNamed(nodes, "Branch", last'.args[1]) = {}
           \/ MatchNamed(nodes, last'.args[2], last'.args[3]) = {})
       => (last'.result = NoRows /\ last'.err = "none" /\ StoreUnchanged)]_vars

\* connect_branch has just returned no rows for a Branch that exists and a
\* parent that does not.
C10_Witness ==
    /\ Ran("connect_branch")
    /\ last.result = NoRows
    /\ MatchNamed(nodes, "Branch", Arg(1)) # {}
    /\ MatchNamed(nodes, Arg(2), Arg(3)) = {}

\* C11: delete_trunk(name) removes the Trunk nodes of that name with every
\* BELONGS_TO and IS_ABOUT relationship that ends at them, and leaves every
\* Branch node, every Reference node, every other Trunk and every relationship
\* that does not touch a deleted Trunk as it was.
C11_DeleteTrunkCascade ==
    [][last'.op = "delete_trunk"
       => LET gone == MatchNamed(nodes, "Trunk", last'.args[1])
          IN  /\ last'.err = "none"
              /\ DOMAIN nodes' = (DOMAIN nodes) \ gone
              /\ \A i \in DOMAIN nodes' : nodes'[i] = nodes[i]
              /\ edges' = {e \in edges : e.from \notin gone /\ e.to \notin gone}
              /\ \A e \in edges' : e.to \notin gone
              /\ \A i \in DOMAIN nodes :
                    nodes[i].label \in {"Branch", "Reference"} => i \in DOMAIN nodes']_vars

\* delete_trunk has just removed the Trunks named so, and a Branch made by
\* create_branch and a Reference are left with no relationship.
C11_Witness ==
    /\ Ran("delete_trunk")
    /\ MatchNamed(nodes, "Trunk", Arg(1)) = {}
    /\ \E b \in DOMAIN nodes :
          /\ nodes[b].label = "Branch" /\ nodes[b].note # Null
          /\ \A e \in edges : e.from # b
    /\ \E r \in DOMAIN nodes :
          /\ nodes[r].label = "Reference"
          /\ \A e \in edges : e.from # r

\* C12: after any sequence of calls, deletes included, both ends of every
\* BELONGS_TO and IS_ABOUT relationship are nodes of the store.
C12_NoOrphanedEdges ==
    \A e \in edges : e.from \in DOMAIN nodes /\ e.to \in DOMAIN nodes

\* delete_branch has just removed the Branches named so from their parent, and
\* a Branch made by create_branch below one of them is left with no parent.
C12_Witness ==
    /\ Ran("delete_branch")
    /\ MatchNamed(nodes, Arg(2), Arg(3)) # {}
    /\ \A p \in MatchNamed(nodes, Arg(2), Arg(3)) : BranchesOn(nodes, edges, Arg(1), p) = {}
    /\ \E b \in DOMAIN nodes :
          /\ nodes[b].label = "Branch" /\ nodes[b].note # Null
          /\ \A e \in edges : e.from # b

\* C13: delete_trunk, delete_branch and delete_reference with a valid label, for
\* a Trunk, a Branch-to-parent relationship or a Reference-to-subject
\* relationship that does not exist, raise nothing and leave the store
\* unchanged.
C13_DeleteMissingIsNoOp ==
    [][/\ (/\ last'.op = "delete_trunk"
           /\ MatchNamed(nodes, "Trunk", last'.args[1]) = {})
          => (last'.err = "none" /\ StoreUnchanged)
       /\ (/\ last'.op = "delete_branch"
           /\ last'.args[2] \in Labels
           /\ \A p \in MatchNamed(nodes, last'.args[2], last'.args[3]) :
                 BranchesOn(nodes, edges, last'.args[1], p) = {})
          => (last'.err = "none" /\ StoreUnchanged)
       /\ (/\ last'.op = "delete_reference"
           /\ last'.args[2] \in Labels
           /\ \A s \in MatchNamed(nodes, last'.args[2], last'.args[3]) :
                 ReferencesOn(nodes, edges, last'.args[1], s) = {})
          => (last'.err = "none" /\ StoreUnchanged)]_vars

\* delete_branch has just returned for a Branch and a parent that both exist,
\* the Branch not being on that parent: the Branch is still there.
C13_Witness ==
    /\ Ran("delete_branch")
    /\ MatchNamed(nodes, "Branch", Arg(1)) # {}
    /\ MatchNamed(nodes, Arg(2), Arg(3)) # {}
    /\ \A p \in MatchNamed(nodes, Arg(2), Arg(3)) : BranchesOn(nodes, edges, Arg(1), p) = {}
    /\ \E b \in MatchNamed(nodes, "Branch", Arg(1)) : \E e \in edges : e.from = b

\* The labels a call was given: one for most methods, two for cross_reference.
LabelsGiven(op, args) ==
    IF op \in {"create_branch", "delete_branch", "connect_branch", "delete_reference"}
    THEN {args[2]}
    ELSE IF op \in {"get_branches", "get_references"} THEN {args[1]}
    ELSE IF op = "create_reference" THEN {args[3]}
    ELSE IF op = "cross_reference" THEN {args[2], args[4]}
    ELSE {}

\* C14: every method that takes a label, called with a label outside {Trunk,
\* Branch}, ends in ValueError with no statement run: no rows are returned and
\* the store is unchanged.
C14_BadLabelRejected ==
    [][(LabelsGiven(last'.op, last'.args) \ Labels # {})
       => (last'.err = "ValueError" /\ last'.result = NoRows /\ StoreUnchanged)]_vars

\* cross_reference has just been rejected for its second label alone, with a
\* Reference that resolves through the first.
C14_Witness ==
    /\ last.op = "cross_reference"
    /\ last.err = "ValueError"
    /\ Arg(2) \in Labels
    /\ Arg(4) \notin Labels
    /\ ReferencePaths(nodes, edges, Arg(1), Arg(2), Arg(3)) # {}

\* C15: the label check comes before the transaction is opened: a call that
\* ends in ValueError has opened no session and no transaction.
C15_LabelCheckBeforeTransaction ==
    last.err = "ValueError" => last.tx = FALSE

\* The Branch nodes with a BELONGS_TO relationship straight to a node of that
\* label and name.
Children(label, name) ==
    {b \in DOMAIN nodes : /\ nodes[b].label = "Branch"
                          /\ \E p \in MatchNamed(nodes, label, name) :
                                Edge(b, "BELONGS_TO", p) \in edges}

\* How many times the row `row` is in the result `rows`.
Times(rows, row) == IF row \in DOMAIN rows THEN rows[row] ELSE 0

\* C16: get_branches(parent_label, parent_name) returns the Branch nodes that
\* have a direct BELONGS_TO relationship to a node of that label and name, and
\* no other; called right after a create_branch(n, label, p, note) that
\* returned rows, get_branches(label, p) contains n.
C16_GetBranchesOneHop ==
    [][(last'.op = "get_branches" /\ last'.args[1] \in Labels)
       => /\ last'.err = "none"
          /\ StoreUnchanged
          /\ DOMAIN last'.result
                = {[name |-> nodes[b].name] : b \in Children(last'.args[1], last'.args[2])}
          /\ (/\ last.op = "create_branch"
              /\ last.result # NoRows
              /\ <<last.args[2], last.args[3]>> = <<last'.args[1], last'.args[2]>>)
             => [name |-> last.args[1]] \in DOMAIN last'.result]_vars

\* get_branches has just returned the children of a parent that also has a
\* grandchild, whose name is not among the rows.
C16_Witness ==
    /\ Ran("get_branches")
    /\ last.result # NoRows
    /\ \E c \in Children(Arg(1), Arg(2)) :
          \E g \in DOMAIN nodes :
              /\ Edge(g, "BELONGS_TO", c) \in edges
              /\ g \notin Children(Arg(1), Arg(2))
              /\ [name |-> nodes[g].name] \notin DOMAIN last.result

\* C17: a Branch created under P1 and then attached with connect_branch to a
\* different existing parent P2 is once among the rows of get_branches for P1
\* and once among the rows of get_branches for P2.
C17_MultiParentListedOnce ==
    [][(/\ last.op = "create_branch"
        /\ last.result # NoRows
        /\ last'.op = "connect_branch"
        /\ last'.args[1] = last.args[1]
        /\ last'.args[2] \in Labels
        /\ <<last'.args[2], last'.args[3]>> # <<last.args[2], last.args[3]>>
        /\ MatchNamed(nodes, last'.args[2], last'.args[3]) # {})
       => /\ Times(_get_branches(nodes', edges', last.args[2], last.args[3]).result,
                   [name |-> last.args[1]]) = 1
          /\ Times(_get_branches(nodes', edges', last'.args[2], last'.args[3]).result,
                   [name |-> last.args[1]]) = 1]_vars

\* C18: a create_branch(n, label, p, note) never reuses or changes a Branch
\* that exists: for each parent that passes the guard it creates one new
\* Branch node with that name and note and one new BELONGS_TO relationship
\* from it to the parent, and every node and relationship there was stays as
\* it was.
C18_CreateBranchCreatesFresh ==
    [][(last'.op = "create_branch" /\ last'.args[2] \in Labels)
       => LET name    == last'.args[1]
              guarded == GuardedParents(nodes, edges, name, last'.args[2], last'.args[3])
              created == (DOMAIN nodes') \ (DOMAIN nodes)
          IN  /\ last'.err = "none"
              /\ DOMAIN nodes \subseteq DOMAIN nodes'
              /\ \A i \in DOMAIN nodes : nodes'[i] = nodes[i]
              /\ edges \subseteq edges'
              /\ Cardinality(created) = Cardinality(guarded)
              /\ \A b \in created : nodes'[b] = BranchNode(name, last'.args[4])
              /\ edges' \ edges \subseteq {Edge(b, "BELONGS_TO", q) : b \in created, q \in guarded}
              /\ \A b \in created : Cardinality({e \in edges' : e.from = b}) = 1
              /\ \A q \in guarded : Cardinality({e \in edges' \ edges : e.to = q}) = 1
              /\ Times(last'.result, [branch |-> name, parent |-> last'.args[3]])
                    = Cardinality(guarded)]_vars

\* create_branch has just created a Branch on a parent while a Branch with
\* the same name and note was already on another parent.
C18_Witness ==
    /\ Ran("create_branch")
    /\ last.result # NoRows
    /\ \E b, c \in MatchNamed(nodes, "Branch", Arg(1)) :
          /\ b # c
          /\ nodes[b].note = Arg(4)
          /\ nodes[c].note = Arg(4)
          /\ \E q \in MatchNamed(nodes, Arg(2), Arg(3)) :
                /\ Edge(b, "BELONGS_TO", q) \in edges
                /\ Edge(c, "BELONGS_TO", q) \notin edges
          /\ \E e \in edges : e.from = c

\* C19: every BELONGS_TO relationship goes from a Branch to a Trunk or a
\* Branch, and every IS_ABOUT relationship from a Reference to a Trunk or a
\* Branch.
C19_EdgeTyping ==
    \A e \in edges :
        /\ e.from \in DOMAIN nodes
        /\ e.to \in DOMAIN nodes
        /\ e.type \in {"BELONGS_TO", "IS_ABOUT"}
        /\ e.type = "BELONGS_TO" => nodes[e.from].label = "Branch"
        /\ e.type = "IS_ABOUT" => nodes[e.from].label = "Reference"
        /\ nodes[e.to].label \in {"Trunk", "Branch"}

\* connect_branch has just attached a Branch to a parent while a Trunk with
\* the Branch's name is there too, and stays without a parent.
C19_Witness ==
    /\ Ran("connect_branch")
    /\ last.result # NoRows
    /\ \E t \in MatchNamed(nodes, "Trunk", Arg(1)) : \A e \in edges : e.from # t
    /\ \E e \in edges : e.type = "IS_ABOUT"

====
